---- MODULE Spec2Model ----
(***************************************************************************)
(* node-usbmux (lib/usbmux.ts): usbmuxd protocol codec, incremental        *)
(* parser, device registry, listener, tunnel connector and relay.          *)
(*                                                                         *)
(* Buffers are sequences of bytes (naturals).  A Buffer index i of the     *)
(* source is index i+1 here.                                               *)
(***************************************************************************)
EXTENDS Integers, Sequences, FiniteSets, TLC

(***************************************************************************)
(* Bounds of the model.                                                    *)
(***************************************************************************)
\* largest number of messages of one parser input
MaxInput == 2
\* the count of the chunks fed to the parser stops at this value
ChunkCap == 2
\* largest number of messages usbmuxd sends to one listener
MaxStream == 4
\* largest number of frames in one chunk received by a listener
MaxChunk == 2
\* largest number of connections the server of a relay accepts
MaxConns == 1
\* largest number of messages usbmuxd sends to the listener of a relay
MaxRelayStream == 3
\* largest number of "data" events of one tunnel
MaxReplies == 2
\* largest number of messages usbmuxd sends to the listener of a relay
\* of which only the listener and the handler run
MaxSelectStream == 4
\* largest number of messages usbmuxd sends to the listener of findDevice
MaxFindStream == 3
\* largest number of calls of getTunnel
MaxCalls == 2
\* largest number of messages usbmuxd sends to each of two listeners
MaxSharedStream == 3

\* size of the 16 byte frame header (payload_buf.length + 16, readUInt32LE(0) - 16)
HeaderSize == 16

\* "let len: number" holds undefined until the first header is read: a
\* number n is <<n>> and undefined is <<>>
Undefined == <<>>
Num(n) == <<n>>
Val(len) == len[1]

Min(a, b) == IF a < b THEN a ELSE b
Max(a, b) == IF a > b THEN a ELSE b

(***************************************************************************)
(* Values carried by the messages.                                         *)
(***************************************************************************)
UDIDs == {"A", "B"}
DeviceIDs == {1, 2}
ResultCodes == {0, 3}

Result(n) == [MessageType |-> "Result", Number |-> n]
Attached(id, udid) ==
    [MessageType |-> "Attached", DeviceID |-> id,
     Properties |-> [DeviceID |-> id, SerialNumber |-> udid]]
Detached(id) == [MessageType |-> "Detached", DeviceID |-> id]

\* what plist.parse returns for a text it accepts that is no usbmuxd message
Junk == [MessageType |-> "Junk"]
\* plist.parse rejects the text
Malformed == [MessageType |-> "Malformed"]

InboundMsgs ==
    {Result(n) : n \in ResultCodes}
      \cup {Attached(id, u) : id \in DeviceIDs, u \in UDIDs}
      \cup {Detached(id) : id \in DeviceIDs}

(***************************************************************************)
(* The plist codec (external library).  A plist text is modelled as        *)
(* "<", a letter for the MessageType, the field values, ">".               *)
(***************************************************************************)
ChLt == 60
ChGt == 62
ChResult == 82
ChAttached == 65
ChDetached == 68
ChConnect == 67

UdidCode(u) == IF u = "A" THEN 97 ELSE 98
UdidOf(c) == IF c = 97 THEN "A" ELSE "B"

plistBuild(m) ==
    CASE m.MessageType = "Result"   -> <<ChLt, ChResult, m.Number, ChGt>>
      [] m.MessageType = "Attached" ->
             <<ChLt, ChAttached, m.Properties.DeviceID,
               UdidCode(m.Properties.SerialNumber), ChGt>>
      [] m.MessageType = "Detached" -> <<ChLt, ChDetached, m.DeviceID, ChGt>>
      [] m.MessageType = "Connect"  ->
             <<ChLt, ChConnect, m.DeviceID, m.PortNumber, ChGt>>
      [] OTHER -> <<ChLt, ChGt>>

plistParse(t) ==
    IF Len(t) = 4 /\ t[1] = ChLt /\ t[4] = ChGt /\ t[2] = ChResult
      THEN Result(t[3])
    ELSE IF Len(t) = 4 /\ t[1] = ChLt /\ t[4] = ChGt /\ t[2] = ChDetached
      THEN Detached(t[3])
    ELSE IF Len(t) = 5 /\ t[1] = ChLt /\ t[5] = ChGt /\ t[2] = ChAttached
              /\ t[4] \in {UdidCode(u) : u \in UDIDs}
      THEN Attached(t[3], UdidOf(t[4]))
    ELSE Malformed

(***************************************************************************)
(* Buffer primitives.                                                      *)
(***************************************************************************)
writeUInt32LE(v) ==
    <<v % 256, (v \div 256) % 256, (v \div 65536) % 256, (v \div 16777216) % 256>>

readUInt32LE(data, off) ==
    data[off + 1] + 256 * data[off + 2] + 65536 * data[off + 3]
      + 16777216 * data[off + 4]

\* Buffer.subarray(start, end): negative indexes count from the end,
\* indexes are clamped to the buffer
subarray(data, start, end) ==
    LET n == Len(data)
        s == IF start < 0 THEN Max(n + start, 0) ELSE Min(start, n)
        e == IF end < 0 THEN Max(n + end, 0) ELSE Min(end, n)
    IN  IF e <= s THEN <<>> ELSE SubSeq(data, s + 1, e)

(***************************************************************************)
(* protocol.pack                                                           *)
(***************************************************************************)
pack(payload_obj) ==
    LET payload_buf == plistBuild(payload_obj)
        header_buf == writeUInt32LE(Len(payload_buf) + HeaderSize)
                        \o writeUInt32LE(1) \o writeUInt32LE(8) \o writeUInt32LE(1)
    IN  header_buf \o payload_buf

\* byteSwap16(val): ((val & 0xff) << 8) | ((val >> 8) & 0xff) on 32 bit
\* integers, for val >= 0: the left operand of | is below 2^16 and has no
\* bit in common with the right one
byteSwap16_same(val) == val
byteSwap16(val) ==
    ((val % 256) * 256) + ((val \div 256) % 256)

\* protocol.connect(deviceID, port)
protocol_connect(deviceID, port) ==
    pack([MessageType |-> "Connect", DeviceID |-> deviceID,
          PortNumber |-> byteSwap16(port)])

RECURSIVE packAll(_)
packAll(ms) == IF ms = <<>> THEN <<>> ELSE pack(Head(ms)) \o packAll(Tail(ms))

(***************************************************************************)
(* protocol.makeParser: the state of one parser is [len, msg]; a call of   *)
(* parse adds [out, err]: the messages handed to onComplete, in order,     *)
(* each with the text it was decoded from, and the exception that ended    *)
(* the call ("none" when it returned).                                     *)
(***************************************************************************)
makeParser == [len |-> Undefined, msg |-> <<>>]

Falsy(len) == len = Undefined \/ Val(len) = 0

\* data = data.subarray(body.length)
leftover_dropped(data, body) == <<>>
leftover(data, body) == subarray(data, Len(body), Len(data))

RECURSIVE parse(_, _, _)

\* if (len === 0) onComplete(plist.parse(msg)): r is what plist.parse gives
parseComplete(st1, r, rest, strict) ==
    IF r = Malformed /\ strict
      THEN [st1 EXCEPT !.err = "PlistError"]
    ELSE IF Len(rest) = 0
      THEN [st1 EXCEPT !.out = Append(@, [msg |-> IF r = Malformed THEN Junk ELSE r,
                                          text |-> st1.msg])]
    ELSE parse([st1 EXCEPT !.out = Append(@, [msg |-> IF r = Malformed THEN Junk ELSE r,
                                              text |-> st1.msg])],
               rest, strict)

\* the statements of parse after the header: body is data.subarray(0, len)
parseRest(st, data, body, strict) ==
    IF Val(st.len) - Len(body) = 0
      THEN parseComplete([st EXCEPT !.len = Num(0), !.msg = @ \o body],
                         plistParse(st.msg \o body), leftover(data, body), strict)
    ELSE IF Len(leftover(data, body)) = 0
      THEN [st EXCEPT !.len = Num(Val(@) - Len(body)), !.msg = @ \o body]
    \* nothing was consumed and the state is the same: the recursion
    \* never ends and the call stack overflows
    ELSE IF Len(body) = 0
      THEN [st EXCEPT !.err = "StackOverflow"]
    ELSE parse([st EXCEPT !.len = Num(Val(@) - Len(body)), !.msg = @ \o body],
               leftover(data, body), strict)

parseBody(st, data, strict) ==
    parseRest(st, data, subarray(data, 0, Val(st.len)), strict)

parse(st, data, strict) ==
    IF Falsy(st.len)
      THEN IF Len(data) < 4
             THEN [st EXCEPT !.err = "RangeError"]
           ELSE IF Len(subarray(data, HeaderSize, Len(data))) = 0
             THEN [st EXCEPT !.len = Num(readUInt32LE(data, 0) - HeaderSize), !.msg = <<>>]
             ELSE parseBody([st EXCEPT !.len = Num(readUInt32LE(data, 0) - HeaderSize),
                                       !.msg = <<>>],
                            subarray(data, HeaderSize, Len(data)), strict)
      ELSE parseBody(st, data, strict)

\* one call of the function returned by makeParser
parseCall(p, data, strict) ==
    parse([len |-> p.len, msg |-> p.msg, out |-> <<>>, err |-> "none"], data, strict)

(***************************************************************************)
(* class UsbmuxdError: the message gets the number and its meaning, and    *)
(* the number is kept when it is truthy.                                   *)
(***************************************************************************)
Truthy(number) == number # Undefined /\ Val(number) # 0

UsbmuxdError(message, number) ==
    [name |-> "UsbmuxdError",
     message |-> <<message>>
                   \o (IF Truthy(number) THEN <<", Err #", Val(number)>> ELSE <<>>)
                   \o (IF number = Num(2) THEN <<": Device isn't connected">> ELSE <<>>)
                   \o (IF number = Num(3) THEN <<": Port isn't available or open">> ELSE <<>>)
                   \o (IF number = Num(5) THEN <<": Malformed request">> ELSE <<>>),
     number |-> IF Truthy(number) THEN number ELSE Undefined]

\* msg.Number: undefined on a message without the field
NumberOf(msg) == IF "Number" \in DOMAIN msg THEN Num(msg.Number) ELSE Undefined

(***************************************************************************)
(* new Promise(...): resolve and reject act on a pending promise only.     *)
(***************************************************************************)
Pending == [state |-> "pending"]
resolve(p, v) == IF p.state = "pending" THEN [state |-> "fulfilled", value |-> v] ELSE p
reject(p, e) == IF p.state = "pending" THEN [state |-> "rejected", reason |-> e] ELSE p

(***************************************************************************)
(* connect(deviceID, devicePort): one connection to usbmuxd.               *)
(*   parser        state of the parser made for it                         *)
(*   dataListener  parse is a listener of "data"                           *)
(*   promise       the promise returned to the caller                      *)
(*   written       the Connect request was written (process.nextTick)      *)
(*   ended         conn.end() was called                                   *)
(*   remote        "open", or "closed" once usbmuxd closed its side        *)
(***************************************************************************)
connect(deviceID, devicePort) ==
    [deviceID |-> deviceID, devicePort |-> devicePort,
     parser |-> makeParser, dataListener |-> TRUE, promise |-> Pending,
     written |-> FALSE, ended |-> FALSE, remote |-> "open"]

connect_onMsgComplete_keepsOpen(c, msg) ==
    IF msg.MessageType = "Result" /\ msg.Number = 0
      THEN [c EXCEPT !.dataListener = FALSE, !.promise = resolve(@, "conn")]
      ELSE [c EXCEPT !.promise = reject(@, UsbmuxdError("Tunnel failed", NumberOf(msg)))]

connect_onMsgComplete(c, msg) ==
    IF msg.MessageType = "Result" /\ msg.Number = 0
      THEN [c EXCEPT !.dataListener = FALSE, !.promise = resolve(@, "conn")]
      ELSE [c EXCEPT !.promise = reject(@, UsbmuxdError("Tunnel failed", NumberOf(msg))),
                     !.ended = TRUE]

RECURSIVE connect_onAll(_, _)
connect_onAll(c, out) ==
    IF out = <<>> THEN c
    ELSE connect_onAll(connect_onMsgComplete(c, Head(out).msg), Tail(out))

\* conn.on("data", parse): the whole chunk goes through parse, and every
\* message parse completes goes through onMsgComplete
connect_onParsed(c, r) ==
    [conn |-> [connect_onAll(c, r.out) EXCEPT !.parser = [len |-> r.len, msg |-> r.msg]],
     out |-> r.out, err |-> r.err]

connect_onData(c, data, strict) ==
    connect_onParsed(c, parseCall(c.parser, data, strict))

(***************************************************************************)
(* devices: the registry, an object keyed by UDID.  It is the sequence of  *)
(* its entries [key, value] in the order of Object.keys(devices): the      *)
(* order in which the keys were created.                                   *)
(***************************************************************************)
Object_keys(devs) == [i \in 1..Len(devs) |-> devs[i].key]
devices_has(devs, key) == \E i \in 1..Len(devs) : devs[i].key = key
devices_get(devs, key) == devs[CHOOSE i \in 1..Len(devs) : devs[i].key = key].value

\* devices[key] = value
devices_set_moved(devs, key, value) ==
    Append(SelectSeq(devs, LAMBDA e : e.key # key), [key |-> key, value |-> value])
devices_set_appended(devs, key, value) ==
    Append(devs, [key |-> key, value |-> value])
devices_set(devs, key, value) ==
    IF devices_has(devs, key)
      THEN [i \in 1..Len(devs) |->
              IF devs[i].key = key THEN [key |-> key, value |-> value] ELSE devs[i]]
      ELSE Append(devs, [key |-> key, value |-> value])

\* delete devices[key]
devices_delete_kept(devs, key) == devs
devices_delete(devs, key) == SelectSeq(devs, LAMBDA e : e.key # key)

(***************************************************************************)
(* createListener(): one listening connection to usbmuxd.                  *)
(*   parser         state of the parser made for it                        *)
(*   written        the Listen request was written (process.nextTick)      *)
(*   ended          conn.end() was called                                  *)
(*   remote         "open", or "closed" once usbmuxd closed its side       *)
(*   errorListener  somebody listens to "error" on the connection          *)
(* The handlers work on an environment [devices, conn, events, err]:       *)
(* events is the log of what the connection emitted and of its end()       *)
(* calls, each entry with the number seq of the decoded message that       *)
(* caused it and whether the registry held the UDID at that moment; err is *)
(* the exception being thrown, or "none".                                  *)
(***************************************************************************)
createListener(errorListener) ==
    [parser |-> makeParser, written |-> FALSE, ended |-> FALSE,
     remote |-> "open", errorListener |-> errorListener]

\* conn.emit(event, arg): an "error" nobody listens to is thrown
emit_first(env, event, arg, seq) ==
    IF event = "error" /\ ~env.conn.errorListener
      THEN [env EXCEPT !.err = "UnhandledError"]
      ELSE [env EXCEPT !.events =
               <<[event |-> event, arg |-> arg, seq |-> seq,
                  present |-> event # "error" /\ devices_has(env.devices, arg)]>> \o @]
emit(env, event, arg, seq) ==
    IF event = "error" /\ ~env.conn.errorListener
      THEN [env EXCEPT !.err = "UnhandledError"]
      ELSE [env EXCEPT !.events =
               Append(@, [event |-> event, arg |-> arg, seq |-> seq,
                          present |-> event # "error" /\ devices_has(env.devices, arg)])]

\* conn.end()
end_forgets(env, seq) ==
    [env EXCEPT !.conn.ended = TRUE,
                !.devices = <<>>,
                !.events = Append(@, [event |-> "end", arg |-> "", seq |-> seq,
                                      present |-> FALSE])]
end(env, seq) ==
    [env EXCEPT !.conn.ended = TRUE,
                !.events = Append(@, [event |-> "end", arg |-> "", seq |-> seq,
                                      present |-> FALSE])]

\* devices[key].DeviceID === msg.DeviceID
sameDevice_any(dev, msg) == TRUE
sameDevice(dev, msg) == dev.DeviceID = msg.DeviceID

RECURSIVE forEach(_, _, _, _)
\* the function given to forEach, for one key
forEach_key(env, key, dev, msg, seq) ==
    IF sameDevice(dev, msg)
      THEN [emit(env, "detached", dev.SerialNumber, seq)
              EXCEPT !.devices = devices_delete(@, key)]
      ELSE env

forEach(env, ks, msg, seq) ==
    IF ks = <<>> THEN env
    ELSE forEach(forEach_key(env, Head(ks), devices_get(env.devices, Head(ks)), msg, seq),
                 Tail(ks), msg, seq)

\* conn.end() after conn.emit("error", ...), unless the emit threw
endUnlessThrown(x, seq) == IF x.err # "none" THEN x ELSE end(x, seq)

\* if (msg.MessageType === "Result" && msg.Number !== 0)
onResult(env, msg, seq) ==
    IF msg.MessageType = "Result" /\ msg.Number # 0
      THEN endUnlessThrown(
               emit(env, "error", UsbmuxdError("Listen failed", Num(msg.Number)), seq), seq)
      ELSE env

\* if (msg.MessageType === "Attached")
onAttached(env, msg, seq) ==
    IF env.err = "none" /\ msg.MessageType = "Attached"
      THEN emit([env EXCEPT !.devices =
                    devices_set(@, msg.Properties.SerialNumber, msg.Properties)],
                "attached", msg.Properties.SerialNumber, seq)
      ELSE env

\* if (msg.MessageType === "Detached")
onDetached(env, msg, seq) ==
    IF env.err = "none" /\ msg.MessageType = "Detached"
      THEN forEach(env, Object_keys(env.devices), msg, seq)
      ELSE env

createListener_onMsgComplete(env, msg, seq) ==
    onDetached(onAttached(onResult(env, msg, seq), msg, seq), msg, seq)

\* the callbacks of one parse call, in order, until one throws: done counts
\* the messages that were handed to onMsgComplete
RECURSIVE createListener_onAll(_, _, _, _)
createListener_onAll(env, out, seq, done) ==
    IF out = <<>> \/ env.err # "none" THEN [env |-> env, done |-> done]
    ELSE createListener_onAll(createListener_onMsgComplete(env, Head(out).msg, seq + 1),
                              Tail(out), seq + 1, done + 1)

\* conn.on("data", parse); seq is the number of messages decoded before
\* r is the parse call, f what its callbacks did
createListener_onCalled(r, f) ==
    [env  |-> [f.env EXCEPT
                 !.conn.parser = IF f.env.err # "none"
                                   THEN [len |-> Num(0), msg |-> r.out[f.done].text]
                                   ELSE [len |-> r.len, msg |-> r.msg],
                 !.err = IF @ # "none" THEN @ ELSE r.err],
     out  |-> SubSeq(r.out, 1, f.done)]

createListener_onParsed(env, r, seq) ==
    createListener_onCalled(r, createListener_onAll(env, r.out, seq, 0))

createListener_onData(env, data, strict, seq) ==
    createListener_onParsed(env, parseCall(env.conn.parser, data, strict), seq)

(***************************************************************************)
(* class Relay.                                                            *)
(*   udid        opts.udid, NoUdid when none was given                     *)
(*   readyCheck  readyCheck still listens to "attached"                    *)
(*   timer       the discovery timer: "armed", "fired" or "cleared"        *)
(*   server      the local server: "listening", "closing" (close() was     *)
(*               called, connections remain), "closed", "failed"           *)
(* The handlers work on an environment [relay, devices, listener,          *)
(* levents, locals, events]: locals are the connections the server         *)
(* accepted, events is the log of what the relay emitted that is about no  *)
(* accepted connection.                                                    *)
(* One accepted connection:                                                *)
(*   state      "none" (not accepted yet), "open", "closed" (the client    *)
(*              closed it or it failed)                                    *)
(*   endCalled  the relay called conn.end()                                *)
(*   hasTunnel  _handler called connect(); tunnel is that connection       *)
(*   piped      the then-callback ran: pipes and handlers are in place     *)
(*   received   bytes the tunnel piped into the connection                 *)
(*   replies    number of "data" events of the tunnel so far               *)
(*   tmsgs      number of messages the tunnel's onMsgComplete received     *)
(*   events     what the relay emitted about this connection, in order     *)
(***************************************************************************)
NoUdid == ""

Relay(devicePort, relayPort, udid) ==
    [devicePort |-> devicePort, relayPort |-> relayPort, udid |-> udid,
     readyCheck |-> TRUE, timer |-> "armed", server |-> "listening"]

NoLocal ==
    [state |-> "none", endCalled |-> FALSE, hasTunnel |-> FALSE,
     tunnel |-> connect(0, 0), piped |-> FALSE, received |-> <<>>,
     replies |-> 0, tmsgs |-> 0, events |-> <<>>]

\* Relay._emit(event, data); conn is the accepted connection the event is
\* about, 0 when none
Relay_emit(env, event, data, c) ==
    IF c = 0
      THEN [env EXCEPT !.events = Append(@, [event |-> event, data |-> data])]
      ELSE [env EXCEPT !.locals[c].events = Append(@, [event |-> event, data |-> data])]

\* readyCheck(udid), a listener of "attached"
readyCheck_kept(env, udid) ==
    IF env.relay.udid # NoUdid /\ env.relay.udid # udid
      THEN env
      ELSE [Relay_emit(env, "ready", udid, 0) EXCEPT
              !.relay.timer = IF @ = "armed" THEN "cleared" ELSE @]
readyCheck(env, udid) ==
    IF ~env.relay.readyCheck \/ (env.relay.udid # NoUdid /\ env.relay.udid # udid)
      THEN env
      ELSE [Relay_emit(env, "ready", udid, 0) EXCEPT
              !.relay.readyCheck = FALSE,
              !.relay.timer = IF @ = "armed" THEN "cleared" ELSE @]

\* the listeners _startListener puts on the connection of createListener()
Relay_onListenerEvent(env, e) ==
    CASE e.event = "attached" -> Relay_emit(readyCheck(env, e.arg), "attached", e.arg, 0)
      [] e.event = "detached" -> Relay_emit(env, "detached", e.arg, 0)
      [] e.event = "error"    -> Relay_emit(env, "error", e.arg, 0)
      [] OTHER -> env

RECURSIVE Relay_onListenerEvents(_, _)
Relay_onListenerEvents(env, evs) ==
    IF evs = <<>> THEN env
    ELSE Relay_onListenerEvents(Relay_onListenerEvent(env, Head(evs)), Tail(evs))

\* the callback of setTimeout in _startListener
Relay_onTimeout_both(env) ==
    LET e1 == IF Len(Object_keys(env.devices)) = 0
                THEN Relay_emit(env, "warning", "No devices connected", 0)
                ELSE env
    IN  IF env.relay.udid # NoUdid /\ ~devices_has(env.devices, env.relay.udid)
          THEN Relay_emit(e1, "warning", "Requested device not connected", 0)
          ELSE e1
Relay_onTimeout(env) ==
    LET e1 == IF env.relay.udid = NoUdid /\ Len(Object_keys(env.devices)) = 0
                THEN Relay_emit(env, "warning", "No devices connected", 0)
                ELSE env
    IN  IF env.relay.udid # NoUdid /\ ~devices_has(env.devices, env.relay.udid)
          THEN Relay_emit(e1, "warning", "Requested device not connected", 0)
          ELSE e1

\* Relay._handler(conn) for the accepted connection c
Relay_handler_anyDevice(env, c) ==
    IF Len(Object_keys(env.devices)) = 0
      THEN [Relay_emit(env, "error", "No devices connected", c) EXCEPT
              !.locals[c].endCalled = TRUE]
    ELSE LET udid == Object_keys(env.devices)[1]
             deviceID == devices_get(env.devices, udid).DeviceID
         IN  [env EXCEPT !.locals[c].hasTunnel = TRUE,
                         !.locals[c].tunnel = connect(deviceID, env.relay.devicePort)]

Relay_handler(env, c) ==
    IF Len(Object_keys(env.devices)) = 0
      THEN [Relay_emit(env, "error", "No devices connected", c) EXCEPT
              !.locals[c].endCalled = TRUE]
    ELSE IF env.relay.udid # NoUdid /\ ~devices_has(env.devices, env.relay.udid)
      THEN [Relay_emit(env, "error", "Requested device not connected", c) EXCEPT
              !.locals[c].endCalled = TRUE]
    ELSE LET udid == IF env.relay.udid # NoUdid THEN env.relay.udid
                     ELSE Object_keys(env.devices)[1]
             deviceID == devices_get(env.devices, udid).DeviceID
         IN  [env EXCEPT !.locals[c].hasTunnel = TRUE,
                         !.locals[c].tunnel = connect(deviceID, env.relay.devicePort)]

\* the callbacks of connect(...).then(...).catch(...) in _handler: they run
\* once, as soon as the handler that settled the promise has returned
Relay_onSettled(env, c) ==
    LET p == env.locals[c].tunnel.promise IN
    IF p.state = "fulfilled"
      THEN [Relay_emit(env, "connect", "", c) EXCEPT !.locals[c].piped = TRUE]
      ELSE [Relay_emit(env, "error", p.reason, c) EXCEPT !.locals[c].endCalled = TRUE]

\* conn.on("end", ...) put by the then-callback, and conn.pipe(tunnel)
Relay_onLocalEnd(env, c) ==
    [Relay_emit(env, "disconnect", "", c) EXCEPT
        !.locals[c].tunnel.ended = TRUE,
        !.locals[c].endCalled = TRUE]

\* conn.on("error", ...) put by the then-callback
Relay_onLocalError(env, c) ==
    [env EXCEPT !.locals[c].tunnel.ended = TRUE, !.locals[c].endCalled = TRUE]

\* Relay.stop(): this._listener.end() and this._server.close(); lenv is the
\* environment of the listener
Relay_stop_endsTunnels(env, lenv, seq) ==
    LET l == end(lenv, seq) IN
    [env EXCEPT !.listener = l.conn, !.levents = l.events,
                !.relay.server = IF @ = "listening" THEN "closing" ELSE @,
                !.locals = [c \in DOMAIN @ |->
                              [@[c] EXCEPT !.endCalled = TRUE, !.tunnel.ended = TRUE]]]
Relay_stop_cancels(env, lenv, seq) ==
    LET l == end(lenv, seq) IN
    [env EXCEPT !.listener = l.conn, !.levents = l.events,
                !.relay.server = IF @ = "listening" THEN "closing" ELSE @,
                !.relay.timer = IF @ = "armed" THEN "cleared" ELSE @]
Relay_stop(env, lenv, seq) ==
    LET l == end(lenv, seq) IN
    [env EXCEPT !.listener = l.conn, !.levents = l.events,
                !.relay.server = IF @ = "listening" THEN "closing" ELSE @]

(***************************************************************************)
(* findDevice(opts).                                                       *)
(*   state    "none" until findDevice is called, then "started"            *)
(*   udid     opts.udid, NoUdid when none was given                        *)
(*   timer    "armed", "fired" or "cleared"                                *)
(*   promise  the promise returned to the caller                           *)
(*   owner    the number of the getTunnel call that awaits the promise,    *)
(*            0 when findDevice was called from outside                    *)
(* Its listener has no listener of "error".  The handlers work on the      *)
(* environment of the listener with the field finder added.                *)
(***************************************************************************)
NoFinder ==
    [state |-> "none", udid |-> NoUdid, timer |-> "cleared", promise |-> Pending,
     owner |-> 0]

findDevice(udid, owner) ==
    [state |-> "started", udid |-> udid, timer |-> "armed", promise |-> Pending,
     owner |-> owner]

\* the callback of setTimeout in findDevice
findDevice_onTimeout(env, seq) ==
    [end(env, seq) EXCEPT
        !.finder.timer = "fired",
        !.finder.promise = reject(@, IF env.finder.udid # NoUdid
                                       THEN "Requested device not connected"
                                       ELSE "No devices connected")]

\* the listener of "attached" in findDevice
findDevice_onAttached_anyUdid(env, udid, seq) ==
    [end(env, seq) EXCEPT
        !.finder.timer = IF @ = "armed" THEN "cleared" ELSE @,
        !.finder.promise = resolve(@, devices_get(env.devices, udid).DeviceID)]
findDevice_onAttached(env, udid, seq) ==
    IF env.finder.udid # NoUdid /\ env.finder.udid # udid
      THEN env
      ELSE [end(env, seq) EXCEPT
              !.finder.timer = IF @ = "armed" THEN "cleared" ELSE @,
              !.finder.promise = resolve(@, devices_get(env.devices, udid).DeviceID)]

RECURSIVE findDevice_onEvents(_, _, _)
findDevice_onEvents(env, evs, seq) ==
    IF evs = <<>> THEN env
    ELSE findDevice_onEvents(
             IF Head(evs).event = "attached"
               THEN findDevice_onAttached(env, Head(evs).arg, seq)
               ELSE env,
             Tail(evs), seq)

(***************************************************************************)
(* getTunnel(devicePort, opts).  A call is [udid, path, deviceID]: path    *)
(* is "connect" once connect(deviceID, devicePort) was called, "find"      *)
(* while the call awaits findDevice, "failed" when findDevice failed.      *)
(***************************************************************************)
getTunnel(devs, udid) ==
    IF udid # NoUdid /\ devices_has(devs, udid)
      THEN [udid |-> udid, path |-> "connect",
            deviceID |-> devices_get(devs, udid).DeviceID]
    ELSE IF udid = NoUdid /\ Len(Object_keys(devs)) # 0
      THEN [udid |-> udid, path |-> "connect",
            deviceID |-> devices_get(devs, Object_keys(devs)[1]).DeviceID]
    ELSE [udid |-> udid, path |-> "find", deviceID |-> 0]

\* what follows "await findDevice(opts)" in getTunnel, once the promise of
\* findDevice is settled
getTunnel_onSettled(cs, f) ==
    IF f.owner = 0 \/ f.promise.state = "pending" \/ cs[f.owner].path # "find" THEN cs
    ELSE IF f.promise.state = "fulfilled"
      THEN [cs EXCEPT ![f.owner].path = "connect", ![f.owner].deviceID = f.promise.value]
    ELSE [cs EXCEPT ![f.owner].path = "failed"]

\* a second listener: its connection, the messages that reached its
\* onMsgComplete and the log of its connection
NoPeer == [conn |-> createListener(TRUE), msgs |-> <<>>, events |-> <<>>]

(***************************************************************************)
(* State.                                                                  *)
(***************************************************************************)
VARIABLES
    input,      \* parser harness: the messages whose frames are fed
    wire,       \* parser harness: the bytes not yet fed
    chunks,     \* parser harness: number of chunks fed so far
    parser,     \* parser harness: [len, msg] of the parser instance
    decoded,    \* parser harness: messages received by onComplete, in order
    thrown,     \* exception that escaped a handler, or "none"
    conn,       \* connect(): the connection and its promise
    cwire,      \* connect(): bytes usbmuxd has still to send on conn
    cparsed,    \* connect(): bytes of conn that were handed to parse
    ctunnel,    \* connect(): bytes of conn that were left to the caller
    cmsgs,      \* connect(): what onMsgComplete received, in order
    request,    \* connect(): the request written to conn
    devices,    \* the registry
    listener,   \* createListener(): the connection
    lsent,      \* listener: the messages usbmuxd has sent, in order
    lchunks,    \* listener: number of "data" events so far
    lmsgs,      \* listener: what onMsgComplete received, in order
    levents,    \* listener: what the connection emitted, and its end() calls
    relay,      \* the Relay object
    locals,     \* relay: the connections its server accepted
    revents,    \* relay: what the relay emitted, in order
    finder,     \* findDevice(): its timer and its promise
    calls,      \* getTunnel(): what each call did, in order
    peer        \* a second listener of the process

parserVars == <<input, wire, chunks, parser, decoded>>
connVars == <<conn, cwire, cparsed, ctunnel, cmsgs, request>>
listenerVars == <<devices, listener, lsent, lchunks, lmsgs, levents>>
relayVars == <<relay, locals, revents>>
processVars == <<finder, calls, peer>>
vars == <<input, wire, chunks, parser, decoded, thrown,
          conn, cwire, cparsed, ctunnel, cmsgs, request,
          devices, listener, lsent, lchunks, lmsgs, levents,
          relay, locals, revents, finder, calls, peer>>

ParserIdle ==
    /\ input = <<>> /\ wire = <<>> /\ chunks = 0
    /\ parser = makeParser /\ decoded = <<>>

ConnIdle ==
    /\ conn = connect(1, 22) /\ cwire = <<>> /\ cparsed = <<>>
    /\ ctunnel = <<>> /\ cmsgs = <<>> /\ request = <<>>

ListenerIdle ==
    /\ devices = <<>> /\ listener = createListener(TRUE)
    /\ lsent = <<>> /\ lchunks = 0 /\ lmsgs = <<>> /\ levents = <<>>

RelayIdle ==
    /\ relay = Relay(22, 2222, NoUdid)
    /\ locals = [c \in 1..MaxConns |-> NoLocal]
    /\ revents = <<>>

ProcessIdle ==
    /\ finder = NoFinder
    /\ calls = <<>>
    /\ peer = NoPeer

\* the messages the parser alone is fed: one of each payload size
ParserMsgs == {Result(0), Attached(1, "A")}

RECURSIVE Msgs(_)
Msgs(out) == IF out = <<>> THEN <<>> ELSE <<Head(out).msg>> \o Msgs(Tail(out))

(***************************************************************************)
(* The parser alone: the frames of one or two packed messages are fed to   *)
(* one parser instance in chunks of any size.                              *)
(***************************************************************************)
ParserInit ==
    /\ input \in UNION {[1..n -> ParserMsgs] : n \in 1..MaxInput}
    /\ wire = packAll(input)
    /\ chunks = 0
    /\ parser = makeParser
    /\ decoded = <<>>
    /\ thrown = "none"
    /\ ConnIdle
    /\ ListenerIdle
    /\ RelayIdle
    /\ ProcessIdle

\* a "data" event carrying the next k bytes
Feed(k, strict) ==
    /\ thrown = "none"
    /\ k \in 1..Len(wire)
    /\ \E r \in {parseCall(parser, SubSeq(wire, 1, k), strict)} :
         /\ parser' = [len |-> r.len, msg |-> r.msg]
         /\ decoded' = decoded \o Msgs(r.out)
         /\ thrown' = r.err
    /\ wire' = SubSeq(wire, k + 1, Len(wire))
    /\ chunks' = Min(chunks + 1, ChunkCap)
    /\ UNCHANGED <<input, connVars, listenerVars, relayVars, processVars>>

ParserNext == \E k \in 1..(MaxInput * (HeaderSize + 5)), strict \in BOOLEAN : Feed(k, strict)

SpecParser == ParserInit /\ [][ParserNext]_vars

(***************************************************************************)
(* C1: every message built by pack, fed to one parser in chunks of any     *)
(* sizes, reaches the completion callback exactly once, decoded, and the   *)
(* parser raises no error.                                                 *)
(***************************************************************************)
C1_RoundTripAnyChunks ==
    Len(input) = 1 =>
        /\ thrown = "none"
        /\ (wire = <<>> => decoded = input)
        /\ (wire # <<>> => decoded = <<>>)

(***************************************************************************)
(* C2: the frames of two messages fed as a single chunk give two           *)
(* callbacks, in the original order, and leave no message in progress.     *)
(***************************************************************************)
C2_TwoMessagesOneChunk ==
    (Len(input) = 2 /\ wire = <<>> /\ chunks = 1) =>
        /\ decoded = input
        /\ parser.len = Num(0)
        /\ thrown = "none"

C2_Witness ==
    /\ Len(input) = 2 /\ wire = <<>> /\ chunks = 1
    /\ input[1] # input[2]
    /\ Len(decoded) = 2
(***************************************************************************)
(* connect() alone: usbmuxd answers the Connect request with one Result    *)
(* frame followed by more bytes (tunnel payload, or more frames), which    *)
(* reach the socket in chunks of any size.                                 *)
(***************************************************************************)
\* what usbmuxd sends after its Result frame
ConnectTails ==
    {<<>>, <<83>>, <<83, 83, 72, 45>>, pack(Result(0)), pack(Result(3))}

ConnectReplies == {pack(Result(n)) \o t : n \in ResultCodes, t \in ConnectTails}

ConnectInit ==
    /\ conn = connect(1, 22)
    /\ cwire \in ConnectReplies
    /\ cparsed = <<>>
    /\ ctunnel = <<>>
    /\ cmsgs = <<>>
    /\ request = <<>>
    /\ thrown = "none"
    /\ ParserIdle
    /\ ListenerIdle
    /\ RelayIdle
    /\ ProcessIdle

\* process.nextTick(function () { conn.write(req) })
ConnWrite ==
    /\ thrown = "none"
    /\ ~conn.written
    /\ conn' = [conn EXCEPT !.written = TRUE]
    /\ request' = protocol_connect(conn.deviceID, conn.devicePort)
    /\ UNCHANGED <<cwire, cparsed, ctunnel, cmsgs, thrown, parserVars, listenerVars, relayVars, processVars>>

\* a "data" event of conn carrying the next k bytes
ConnData(k, strict) ==
    /\ thrown = "none"
    /\ conn.written /\ conn.remote = "open"
    /\ k \in 1..Len(cwire)
    /\ cwire' = SubSeq(cwire, k + 1, Len(cwire))
    /\ IF conn.dataListener
         THEN \E r \in {connect_onData(conn, SubSeq(cwire, 1, k), strict)} :
                /\ conn' = r.conn
                /\ cmsgs' = cmsgs \o r.out
                /\ thrown' = r.err
                /\ cparsed' = cparsed \o SubSeq(cwire, 1, k)
                /\ UNCHANGED ctunnel
         ELSE /\ ctunnel' = ctunnel \o SubSeq(cwire, 1, k)
              /\ UNCHANGED <<conn, cmsgs, thrown, cparsed>>
    /\ UNCHANGED <<request, parserVars, listenerVars, relayVars, processVars>>

\* usbmuxd closes the connection: connect() listens to neither "end" nor
\* "close"
ConnRemoteClose ==
    /\ thrown = "none"
    /\ conn.remote = "open"
    /\ conn' = [conn EXCEPT !.remote = "closed"]
    /\ UNCHANGED <<request, cwire, cparsed, ctunnel, cmsgs, thrown, parserVars, listenerVars, relayVars, processVars>>

\* the transport fails: the socket emits "error", which has no listener
ConnTransportError ==
    /\ thrown = "none"
    /\ conn.remote = "open"
    /\ conn' = [conn EXCEPT !.remote = "closed"]
    /\ thrown' = "TransportError"
    /\ UNCHANGED <<request, cwire, cparsed, ctunnel, cmsgs, parserVars, listenerVars, relayVars, processVars>>

ConnectNext ==
    \/ ConnWrite
    \/ \E k \in 1..(2 * (HeaderSize + 5)), strict \in BOOLEAN : ConnData(k, strict)
    \/ ConnRemoteClose
    \/ ConnTransportError

SpecConnect == ConnectInit /\ [][ConnectNext]_vars

\* number of bytes of the frames the messages of out were decoded from
RECURSIVE FrameBytes(_)
FrameBytes(out) ==
    IF out = <<>> THEN 0 ELSE HeaderSize + Len(Head(out).text) + FrameBytes(Tail(out))

(***************************************************************************)
(* C3: once connect() has received a Result with code zero, the parser     *)
(* consumes no byte of the connection after the end of that Result frame.  *)
(***************************************************************************)
C3_NoParsingAfterResultZero ==
    \A i \in 1..Len(cmsgs) :
        cmsgs[i].msg = Result(0) => Len(cparsed) <= FrameBytes(SubSeq(cmsgs, 1, i))

(***************************************************************************)
(* C4: when the first message decoded by connect() is a Result with a      *)
(* nonzero code c, the promise is rejected with an error carrying c and    *)
(* conn.end() was called; a settled promise never changes.                 *)
(***************************************************************************)
C4_FirstNonzero ==
    (Len(cmsgs) >= 1 /\ cmsgs[1].msg.MessageType = "Result" /\ cmsgs[1].msg.Number # 0) =>
        /\ conn.promise.state = "rejected"
        /\ conn.promise.reason.number = Num(cmsgs[1].msg.Number)
        /\ conn.ended

C4_NonzeroRejectsOnce ==
    /\ []C4_FirstNonzero
    /\ [][conn.promise.state # "pending" => conn.promise' = conn.promise]_vars

C4_Witness ==
    /\ Len(cmsgs) = 2
    /\ cmsgs[1].msg = Result(3) /\ cmsgs[2].msg = Result(0)
    /\ conn.promise.state = "rejected" /\ conn.ended /\ ~conn.dataListener
(***************************************************************************)
(* createListener() alone: usbmuxd answers the Listen request with a       *)
(* Result and then reports devices; its frames arrive whole, one or more   *)
(* per chunk.  The owner of the listener may call end() at any time        *)
(* (Relay.stop, findDevice), and usbmuxd may close or the transport fail.  *)
(***************************************************************************)
Results == {Result(n) : n \in ResultCodes}
DeviceMsgs ==
    {Attached(id, u) : id \in DeviceIDs, u \in UDIDs} \cup {Detached(id) : id \in DeviceIDs}

ListenerInit ==
    /\ devices = <<>>
    /\ listener \in {createListener(e) : e \in BOOLEAN}
    /\ lsent = <<>> /\ lchunks = 0 /\ lmsgs = <<>> /\ levents = <<>>
    /\ thrown = "none"
    /\ ParserIdle
    /\ ConnIdle
    /\ RelayIdle
    /\ ProcessIdle

\* process.nextTick(function () { conn.write(req) })
ListenerWrite ==
    /\ thrown = "none"
    /\ ~listener.written
    /\ listener' = [listener EXCEPT !.written = TRUE]
    /\ UNCHANGED <<devices, lsent, lchunks, lmsgs, levents, thrown, parserVars, connVars, relayVars, processVars>>

\* a "data" event of the listener carrying the frames of ms
ListenerData(ms, strict) ==
    /\ thrown = "none"
    /\ listener.written /\ listener.remote = "open"
    /\ Len(lsent) + Len(ms) <= MaxStream
    /\ \A i \in 1..Len(ms) :
          IF Len(lsent) + i = 1 THEN ms[i] \in Results ELSE ms[i] \in DeviceMsgs
    /\ \E r \in {createListener_onData(
                     [devices |-> devices, conn |-> listener, events |-> levents,
                      err |-> "none"],
                     packAll(ms), strict, Len(lmsgs))} :
           /\ devices' = r.env.devices
           /\ listener' = r.env.conn
           /\ levents' = r.env.events
           /\ thrown' = r.env.err
           /\ lmsgs' = lmsgs \o Msgs(r.out)
    /\ lsent' = lsent \o ms
    /\ lchunks' = lchunks + 1
    /\ UNCHANGED <<parserVars, connVars, relayVars, processVars>>

\* the owner calls listener.end()
ListenerEnd ==
    /\ thrown = "none"
    /\ ~listener.ended
    /\ LET e == end([devices |-> devices, conn |-> listener, events |-> levents,
                     err |-> "none"], Len(lmsgs))
       IN  listener' = e.conn /\ levents' = e.events
    /\ UNCHANGED <<devices, lsent, lchunks, lmsgs, thrown, parserVars, connVars, relayVars, processVars>>

\* usbmuxd closes the connection
ListenerRemoteClose ==
    /\ thrown = "none"
    /\ listener.remote = "open"
    /\ listener' = [listener EXCEPT !.remote = "closed"]
    /\ UNCHANGED <<devices, lsent, lchunks, lmsgs, levents, thrown, parserVars, connVars, relayVars, processVars>>

\* the transport fails: the socket emits "error"
ListenerTransportError ==
    /\ thrown = "none"
    /\ listener.remote = "open"
    /\ LET e == emit([devices |-> devices,
                      conn |-> [listener EXCEPT !.remote = "closed"],
                      events |-> levents, err |-> "none"],
                     "error", [name |-> "TransportError"], Len(lmsgs))
       IN  listener' = e.conn /\ levents' = e.events /\ thrown' = e.err
    /\ UNCHANGED <<devices, lsent, lchunks, lmsgs, parserVars, connVars, relayVars, processVars>>

ListenerNext ==
    \/ ListenerWrite
    \/ \E ms \in UNION {[1..n -> Results \cup DeviceMsgs] : n \in 1..MaxChunk},
          strict \in BOOLEAN : ListenerData(ms, strict)
    \/ ListenerEnd
    \/ ListenerRemoteClose
    \/ ListenerTransportError

SpecListener == ListenerInit /\ [][ListenerNext]_vars
\* the entries of the log that are notifications
IsNotification(e) == e.event \in {"attached", "detached"}

\* the listener is in the state Listening when it makes entry i of the log:
\* a Result with code zero was decoded before, no Result with a nonzero
\* code, and the connection was neither ended nor failed
ListeningAt(i) ==
    /\ \E j \in 1..(levents[i].seq - 1) : lmsgs[j] = Result(0)
    /\ \A j \in 1..(levents[i].seq - 1) :
          ~(lmsgs[j].MessageType = "Result" /\ lmsgs[j].Number # 0)
    /\ \A k \in 1..(i - 1) : levents[k].event \notin {"end", "error"}

(***************************************************************************)
(* C6: a listener changes the registry and emits attached/detached only    *)
(* in the state Listening: after a Result with code zero, and not after a  *)
(* nonzero Result or after its connection was ended or failed.             *)
(***************************************************************************)
C6_NotificationsOnlyWhileListening ==
    \A i \in 1..Len(levents) : IsNotification(levents[i]) => ListeningAt(i)

(***************************************************************************)
(* C7: once a Detached message with session handle h is processed, no      *)
(* entry of the registry has handle h; after Attached for D and then       *)
(* Detached with D's handle, with no Attached for D's UDID after the       *)
(* first, the registry does not hold D's UDID, and "detached" with D's     *)
(* UDID was emitted while the entry was still there.                       *)
(***************************************************************************)
C7_DetachedRemovesEntry ==
    /\ (lmsgs # <<>> /\ lmsgs[Len(lmsgs)].MessageType = "Detached") =>
          \A i \in 1..Len(devices) :
              devices[i].value.DeviceID # lmsgs[Len(lmsgs)].DeviceID
    /\ \A i \in 1..Len(lmsgs), j \in 1..Len(lmsgs) :
          (/\ i < j
           /\ lmsgs[i].MessageType = "Attached"
           /\ lmsgs[j].MessageType = "Detached"
           /\ lmsgs[j].DeviceID = lmsgs[i].Properties.DeviceID) =>
             LET udid == lmsgs[i].Properties.SerialNumber
                 Reattached(from, to) ==
                     \E k \in from..to : /\ lmsgs[k].MessageType = "Attached"
                                         /\ lmsgs[k].Properties.SerialNumber = udid
             IN  /\ ~Reattached(i + 1, Len(lmsgs)) => ~devices_has(devices, udid)
                 /\ ~Reattached(i + 1, j - 1) =>
                       \E n \in 1..Len(levents) :
                           /\ levents[n].event = "detached"
                           /\ levents[n].arg = udid
                           /\ levents[n].seq \in (i + 1)..j
                           /\ levents[n].present

C7_Witness ==
    /\ Len(lmsgs) >= 3
    /\ lmsgs[Len(lmsgs) - 1] = Attached(1, "A")
    /\ lmsgs[Len(lmsgs)] = Detached(1)
    /\ \E n \in 1..Len(levents) :
          levents[n].event = "detached" /\ levents[n].arg = "A"
             /\ levents[n].seq = Len(lmsgs)
    /\ ~devices_has(devices, "A")

(***************************************************************************)
(* C8: a Detached message whose session handle matches no entry of the     *)
(* registry emits nothing and leaves the registry unchanged.               *)
(***************************************************************************)
C8_UnmatchedDetachedIgnored ==
    [][(/\ Len(lmsgs') = Len(lmsgs) + 1
        /\ lmsgs'[Len(lmsgs')].MessageType = "Detached"
        /\ \A i \in 1..Len(devices) :
              devices[i].value.DeviceID # lmsgs'[Len(lmsgs')].DeviceID)
         => (devices' = devices /\ levents' = levents)]_vars

\* the stale handle of a UDID that re-attached with a new handle
C8_Witness ==
    /\ lmsgs = <<Result(0), Attached(1, "A"), Attached(2, "A"), Detached(1)>>
    /\ devices = <<[key |-> "A", value |-> [DeviceID |-> 2, SerialNumber |-> "A"]]>>
    /\ \A n \in 1..Len(levents) : levents[n].event # "detached"

(***************************************************************************)
(* C9: the notifications of a listener are in the order of the messages    *)
(* of usbmuxd's stream, whatever frames share a chunk: every frame that    *)
(* arrived is decoded, in order; every Attached gives one "attached" with  *)
(* its UDID, every notification belongs to a message of its type, and the  *)
(* log follows the order of the messages.                                  *)
(***************************************************************************)
C9_NotificationsInStreamOrder ==
    /\ Len(lmsgs) <= Len(lsent) /\ lmsgs = SubSeq(lsent, 1, Len(lmsgs))
    /\ thrown = "none" => lmsgs = lsent
    /\ \A i \in 1..Len(levents), k \in 1..Len(levents) :
          i < k => levents[i].seq <= levents[k].seq
    /\ \A j \in 1..Len(lmsgs) :
          lmsgs[j].MessageType = "Attached" =>
             /\ Cardinality({n \in 1..Len(levents) :
                    IsNotification(levents[n]) /\ levents[n].seq = j}) = 1
             /\ \E n \in 1..Len(levents) :
                    /\ levents[n].event = "attached" /\ levents[n].seq = j
                    /\ levents[n].arg = lmsgs[j].Properties.SerialNumber
    /\ \A n \in 1..Len(levents) :
          /\ levents[n].event = "attached" =>
                /\ lmsgs[levents[n].seq].MessageType = "Attached"
                /\ lmsgs[levents[n].seq].Properties.SerialNumber = levents[n].arg
          /\ levents[n].event = "detached" =>
                lmsgs[levents[n].seq].MessageType = "Detached"

\* three notifications from a chunk of one frame and a chunk of two
C9_Witness ==
    /\ lchunks = 3
    /\ lsent = <<Result(0), Attached(1, "A"), Attached(2, "B"), Detached(1)>>
    /\ Len(SelectSeq(levents, IsNotification)) = 3
    /\ levents[Len(levents)].event = "detached" /\ levents[Len(levents)].arg = "A"
(***************************************************************************)
(* A Relay: its listener, its discovery timer, its server and the tunnels  *)
(* of the connections the server accepts.  usbmuxd answers the listener    *)
(* with Result 0 and reports devices, one frame per chunk; it answers      *)
(* each Connect request with a Result frame, alone in its chunk or         *)
(* followed by a tunnel byte, and then sends tunnel bytes.  The user of    *)
(* the relay listens to its "error" events.                                *)
(***************************************************************************)
RelayDeviceMsgs == {Attached(1, "A"), Attached(2, "B"), Attached(2, "A"), Detached(1), Detached(2)}

TunnelByte == 83
TunnelFirstChunks ==
    {pack(Result(0)), pack(Result(3)), pack(Result(0)) \o <<TunnelByte>>}

RelayEnv ==
    [relay |-> relay, devices |-> devices, listener |-> listener,
     levents |-> levents, locals |-> locals, events |-> revents]

ListenerEnv ==
    [devices |-> devices, conn |-> listener, events |-> levents, err |-> "none"]

\* no callback of process.nextTick is waiting: they run before any event
NoTick ==
    /\ listener.written
    /\ \A c \in 1..MaxConns : locals[c].hasTunnel => locals[c].tunnel.written

\* devices is a variable of the module: when a relay is made it is empty,
\* or holds what an earlier listener of the process left in it
LeftDevices ==
    {<<>>, <<[key |-> "A", value |-> [DeviceID |-> 1, SerialNumber |-> "A"]]>>}

RelayInit ==
    /\ relay \in {Relay(22, 2222, u) : u \in {NoUdid} \cup UDIDs}
    /\ locals = [c \in 1..MaxConns |-> NoLocal]
    /\ revents = <<>>
    /\ devices \in LeftDevices
    /\ listener = createListener(TRUE)
    /\ lsent = <<>> /\ lchunks = 0 /\ lmsgs = <<>> /\ levents = <<>>
    /\ thrown = "none"
    /\ ParserIdle
    /\ ConnIdle
    /\ ProcessIdle

\* a "data" event of the relay's listener carrying the frame of m
RelayListenerFrame(m, strict) ==
    /\ thrown = "none" /\ NoTick
    /\ listener.written /\ listener.remote = "open"
    /\ \E r \in {createListener_onData(ListenerEnv, pack(m), strict, Len(lmsgs))} :
       \E e \in {Relay_onListenerEvents(
                     [RelayEnv EXCEPT !.devices = r.env.devices],
                     SubSeq(r.env.events, Len(levents) + 1, Len(r.env.events)))} :
           /\ devices' = r.env.devices
           /\ listener' = r.env.conn
           /\ levents' = r.env.events
           /\ thrown' = r.env.err
           /\ lmsgs' = lmsgs \o Msgs(r.out)
           /\ relay' = e.relay
           /\ revents' = e.events
    /\ lsent' = Append(lsent, m)
    /\ lchunks' = lchunks + 1
    /\ UNCHANGED <<locals, parserVars, connVars, processVars>>

\* usbmuxd answers the Listen request with Result 0 and then reports devices
RelayListenerData(m, strict) ==
    /\ Len(lsent) < MaxRelayStream
    /\ IF lsent = <<>> THEN m = Result(0) ELSE m \in RelayDeviceMsgs
    /\ RelayListenerFrame(m, strict)

\* the transport of the relay's listener fails
RelayListenerError ==
    /\ thrown = "none" /\ NoTick
    /\ listener.remote = "open"
    /\ \E l \in {emit([ListenerEnv EXCEPT !.conn.remote = "closed"],
                       "error", [name |-> "TransportError"], Len(lmsgs))} :
       \E e \in {Relay_onListenerEvents(
                     RelayEnv, SubSeq(l.events, Len(levents) + 1, Len(l.events)))} :
           /\ listener' = l.conn /\ levents' = l.events /\ thrown' = l.err
           /\ relay' = e.relay /\ revents' = e.events
    /\ UNCHANGED <<devices, lsent, lchunks, lmsgs, locals, parserVars, connVars, processVars>>

\* the discovery timer expires
RelayTimeout ==
    /\ thrown = "none" /\ NoTick
    /\ relay.timer = "armed"
    /\ LET e == Relay_onTimeout(RelayEnv) IN
         /\ relay' = [e.relay EXCEPT !.timer = "fired"]
         /\ revents' = e.events
    /\ UNCHANGED <<locals, listenerVars, thrown, parserVars, connVars, processVars>>

\* the server accepts connection c and calls _handler
RelayAccept(c) ==
    /\ thrown = "none" /\ NoTick
    /\ relay.server = "listening"
    /\ locals[c].state = "none"
    /\ \A b \in 1..(c - 1) : locals[b].state # "none"
    /\ LET e == Relay_handler([RelayEnv EXCEPT !.locals[c].state = "open"], c) IN
         locals' = e.locals
    /\ UNCHANGED <<relay, revents, listenerVars, thrown, parserVars, connVars, processVars>>

\* process.nextTick(function () { conn.write(req) }) of the tunnel of c
TunnelWrite(c) ==
    /\ thrown = "none"
    /\ locals[c].hasTunnel /\ ~locals[c].tunnel.written
    /\ locals' = [locals EXCEPT ![c].tunnel.written = TRUE]
    /\ UNCHANGED <<relay, revents, listenerVars, thrown, parserVars, connVars, processVars>>

\* a "data" event of the tunnel of c
TunnelData(c, data, strict) ==
    /\ thrown = "none" /\ NoTick
    /\ locals[c].hasTunnel
    /\ locals[c].tunnel.written /\ locals[c].tunnel.remote = "open"
    /\ locals[c].replies < MaxReplies
    /\ IF locals[c].replies = 0
         THEN data \in TunnelFirstChunks
         ELSE data = <<TunnelByte>> /\ locals[c].tunnel.promise.state = "fulfilled"
    /\ IF locals[c].tunnel.dataListener
         THEN \E r \in {connect_onData(locals[c].tunnel, data, strict)} :
              \E e1 \in {[RelayEnv EXCEPT !.locals[c].tunnel = r.conn,
                                          !.locals[c].tmsgs = @ + Len(r.out),
                                          !.locals[c].replies = @ + 1]} :
                  /\ locals' = IF /\ locals[c].tunnel.promise.state = "pending"
                                  /\ r.conn.promise.state # "pending"
                                  /\ r.err = "none"
                                 THEN Relay_onSettled(e1, c).locals
                                 ELSE e1.locals
                  /\ thrown' = r.err
         ELSE /\ locals' = [locals EXCEPT
                              ![c].replies = @ + 1,
                              ![c].received =
                                  IF locals[c].piped /\ locals[c].state = "open"
                                       /\ ~locals[c].endCalled
                                    THEN @ \o data ELSE @]
              /\ UNCHANGED thrown
    /\ UNCHANGED <<relay, revents, listenerVars, parserVars, connVars, processVars>>

\* usbmuxd closes the tunnel of c: connect() listens to neither "end" nor
\* "close"; a piped tunnel ends the accepted connection
TunnelRemoteClose(c) ==
    /\ thrown = "none" /\ NoTick
    /\ locals[c].hasTunnel /\ locals[c].tunnel.remote = "open"
    /\ locals' = [locals EXCEPT ![c].tunnel.remote = "closed",
                                ![c].endCalled = IF locals[c].piped THEN TRUE ELSE @]
    /\ UNCHANGED <<relay, revents, listenerVars, thrown, parserVars, connVars, processVars>>

\* the transport of the tunnel of c fails: its "error" has no listener
TunnelTransportError(c) ==
    /\ thrown = "none" /\ NoTick
    /\ locals[c].hasTunnel /\ locals[c].tunnel.remote = "open"
    /\ locals' = [locals EXCEPT ![c].tunnel.remote = "closed"]
    /\ thrown' = "TransportError"
    /\ UNCHANGED <<relay, revents, listenerVars, parserVars, connVars, processVars>>

\* the client ends the accepted connection c
LocalEnd(c) ==
    /\ thrown = "none" /\ NoTick
    /\ locals[c].state = "open"
    /\ LET e0 == [RelayEnv EXCEPT !.locals[c].state = "closed"]
           e == IF locals[c].piped THEN Relay_onLocalEnd(e0, c) ELSE e0
       IN  locals' = e.locals
    /\ UNCHANGED <<relay, revents, listenerVars, thrown, parserVars, connVars, processVars>>

\* the accepted connection c fails: before the then-callback ran its
\* "error" has no listener
LocalError(c) ==
    /\ thrown = "none" /\ NoTick
    /\ locals[c].state = "open"
    /\ LET e0 == [RelayEnv EXCEPT !.locals[c].state = "closed"]
           e == IF locals[c].piped THEN Relay_onLocalError(e0, c) ELSE e0
       IN  locals' = e.locals
    /\ thrown' = IF locals[c].piped THEN "none" ELSE "TransportError"
    /\ UNCHANGED <<relay, revents, listenerVars, parserVars, connVars, processVars>>

\* the user calls relay.stop()
RelayStop ==
    /\ thrown = "none" /\ NoTick
    /\ relay.server = "listening"
    /\ \E e \in {Relay_stop(RelayEnv, ListenerEnv, Len(lmsgs))} :
         /\ relay' = e.relay
         /\ listener' = e.listener
         /\ levents' = e.levents
         /\ locals' = e.locals
    /\ UNCHANGED <<devices, lsent, lchunks, lmsgs, revents, thrown,
                   parserVars, connVars, processVars>>

\* the "close" event of the server: close() was called and no accepted
\* connection is left
ServerClosed ==
    /\ thrown = "none" /\ NoTick
    /\ relay.server = "closing"
    /\ \A c \in 1..MaxConns : locals[c].state # "open"
    /\ relay' = [relay EXCEPT !.server = "closed"]
    /\ revents' = Relay_emit(RelayEnv, "close", "", 0).events
    /\ UNCHANGED <<locals, listenerVars, thrown, parserVars, connVars, processVars>>

\* the "error" event of the server (listen failed)
ServerError ==
    /\ thrown = "none" /\ NoTick
    /\ relay.server = "listening"
    /\ \A c \in 1..MaxConns : locals[c].state = "none"
    /\ lsent = <<>> /\ relay.timer = "armed" /\ listener.remote = "open"
    /\ LET l == end(ListenerEnv, Len(lmsgs)) IN
         /\ listener' = l.conn
         /\ levents' = l.events
    /\ relay' = [relay EXCEPT !.server = "failed"]
    /\ revents' = Relay_emit(RelayEnv, "error", "listen failed", 0).events
    /\ UNCHANGED <<devices, lsent, lchunks, lmsgs, locals, thrown, parserVars, connVars, processVars>>

RelayNext ==
    \/ ListenerWrite
    \/ \E m \in {Result(0)} \cup RelayDeviceMsgs, strict \in BOOLEAN :
          RelayListenerData(m, strict)
    \/ ListenerRemoteClose
    \/ RelayListenerError
    \/ RelayTimeout
    \/ RelayStop
    \/ ServerClosed
    \/ ServerError
    \/ \E c \in 1..MaxConns :
          \/ RelayAccept(c)
          \/ TunnelWrite(c)
          \/ \E data \in TunnelFirstChunks \cup {<<TunnelByte>>}, strict \in BOOLEAN :
                TunnelData(c, data, strict)
          \/ TunnelRemoteClose(c)
          \/ TunnelTransportError(c)
          \/ LocalEnd(c)
          \/ LocalError(c)

SpecRelay == RelayInit /\ [][RelayNext]_vars
\* no device of the registry qualifies for the relay
NoQualifyingDevice ==
    \/ Len(Object_keys(devices)) = 0
    \/ relay.udid # NoUdid /\ ~devices_has(devices, relay.udid)

(***************************************************************************)
(* C5: when the tunnel connection of connect() fails or is closed before   *)
(* a Result was decoded, connect() fails to its caller, and the relay's    *)
(* handler emits "error" and closes the accepted connection.               *)
(***************************************************************************)
C5_TunnelFailureReachesCaller ==
    \A c \in 1..MaxConns :
        (/\ locals[c].hasTunnel
         /\ locals[c].tunnel.remote = "closed"
         /\ locals[c].tmsgs = 0) =>
            /\ locals[c].tunnel.promise.state = "rejected"
            /\ locals[c].endCalled
            /\ \E n \in 1..Len(locals[c].events) : locals[c].events[n].event = "error"

(***************************************************************************)
(* C10: a connection accepted while no device of the registry qualifies    *)
(* gets exactly one "error" and is closed, and connect() is not called     *)
(* for it.                                                                 *)
(***************************************************************************)
C10_NoDeviceRefused ==
    [][\A c \in 1..MaxConns :
          (locals[c].state = "none" /\ locals'[c].state # "none" /\ NoQualifyingDevice) =>
             /\ Len(locals'[c].events) = 1
             /\ locals'[c].events[1].event = "error"
             /\ revents' = revents
             /\ locals'[c].endCalled
             /\ ~locals'[c].hasTunnel]_vars

\* refused with a pinned UDID that is absent from a registry that is not empty
C10_Witness ==
    /\ relay.udid = "B"
    /\ devices_has(devices, "A") /\ ~devices_has(devices, "B")
    /\ locals[1].state = "open" /\ locals[1].endCalled /\ ~locals[1].hasTunnel
    /\ locals[1].events = <<[event |-> "error", data |-> "Requested device not connected"]>>

(***************************************************************************)
(* The handler of a Relay and the registry: the listener of the relay      *)
(* receives Result 0 and then any device messages, among them a UDID that  *)
(* is attached again under a new session handle; the server accepts        *)
(* connections at any moment.                                              *)
(***************************************************************************)
SelectMsgs ==
    {Attached(1, "A"), Attached(2, "B"), Attached(3, "A"), Detached(1), Detached(2)}

SelectData(m, strict) ==
    /\ Len(lsent) < MaxSelectStream
    /\ IF lsent = <<>> THEN m = Result(0) ELSE m \in SelectMsgs
    /\ RelayListenerFrame(m, strict)

SelectNext ==
    \/ ListenerWrite
    \/ \E m \in {Result(0)} \cup SelectMsgs, strict \in BOOLEAN : SelectData(m, strict)
    \/ \E c \in 1..MaxConns :
          \/ RelayAccept(c)
          \/ TunnelWrite(c)

\* the registry is empty when the relay is made
SelectInit == RelayInit /\ devices = <<>>

SpecSelect == SelectInit /\ [][SelectNext]_vars

\* the devices that are attached after the messages msgs, each with its
\* current session handle, the one attached earliest first: an Attached
\* for a UDID that is present gives it the new handle and leaves its place
RECURSIVE AttachOrder(_)
AttachOrder(msgs) ==
    IF msgs = <<>> THEN <<>>
    ELSE LET prev == AttachOrder(SubSeq(msgs, 1, Len(msgs) - 1))
             m == msgs[Len(msgs)]
         IN  CASE m.MessageType = "Attached" ->
                    IF \E i \in 1..Len(prev) : prev[i].udid = m.Properties.SerialNumber
                      THEN [i \in 1..Len(prev) |->
                              IF prev[i].udid = m.Properties.SerialNumber
                                THEN [udid |-> prev[i].udid, id |-> m.DeviceID]
                                ELSE prev[i]]
                      ELSE Append(prev, [udid |-> m.Properties.SerialNumber,
                                         id |-> m.DeviceID])
               [] m.MessageType = "Detached" ->
                    SelectSeq(prev, LAMBDA e : e.id # m.DeviceID)
               [] OTHER -> prev

\* the session handle the handler has to use after the messages msgs
TargetHandle(msgs, udid) ==
    LET order == AttachOrder(msgs) IN
    IF udid = NoUdid THEN order[1].id
    ELSE order[CHOOSE i \in 1..Len(order) : order[i].udid = udid].id

\* some device attached after the messages msgs qualifies for the relay
Qualifies(msgs, udid) ==
    \E i \in 1..Len(AttachOrder(msgs)) :
        udid = NoUdid \/ AttachOrder(msgs)[i].udid = udid

(***************************************************************************)
(* C11: a connection accepted while a device qualifies gets a tunnel to    *)
(* the session handle that device has at that moment: the pinned UDID's,   *)
(* or without a pin that of the device attached earliest among those still *)
(* attached.                                                               *)
(***************************************************************************)
C11_HandlerSelectsEarliest ==
    [][\A c \in 1..MaxConns :
          (locals[c].state = "none" /\ locals'[c].state # "none"
              /\ Qualifies(lmsgs, relay.udid)) =>
             /\ locals'[c].hasTunnel
             /\ locals'[c].tunnel.deviceID = TargetHandle(lmsgs, relay.udid)
             /\ locals'[c].tunnel.devicePort = relay.devicePort]_vars

\* without a pin, after A, B and A again under handle 3: A is first, with 3
C11_Witness ==
    /\ relay.udid = NoUdid
    /\ lmsgs = <<Result(0), Attached(1, "A"), Attached(2, "B"), Attached(3, "A")>>
    /\ locals[1].hasTunnel /\ locals[1].tunnel.deviceID = 3

\* the UDID satisfies the pin of the relay
SatisfiesPin(udid) == relay.udid = NoUdid \/ relay.udid = udid

\* the notifications of the relay's listener, and what the relay forwarded
ListenerNotifications == SelectSeq(levents, IsNotification)
Forwarded == SelectSeq(revents, LAMBDA e : e.event \in {"attached", "detached"})

\* the places of the relay's log that hold the event
PlacesOf(event) == {i \in 1..Len(revents) : revents[i].event = event}

(***************************************************************************)
(* C12: a relay emits "ready" at most once, right at the first "attached"  *)
(* of its listener whose UDID satisfies the pin and with that UDID; the    *)
(* discovery timer is then cancelled and no "warning" follows; every       *)
(* attached/detached of the listener is forwarded, in order.               *)
(***************************************************************************)
C12_ReadyOnceAtFirstMatch ==
    /\ Cardinality(PlacesOf("ready")) <= 1
    /\ Len(Forwarded) = Len(ListenerNotifications)
    /\ \A i \in 1..Len(Forwarded) :
          /\ Forwarded[i].event = ListenerNotifications[i].event
          /\ Forwarded[i].data = ListenerNotifications[i].arg
    /\ LET matches == {i \in 1..Len(levents) :
                          levents[i].event = "attached" /\ SatisfiesPin(levents[i].arg)}
       IN  IF matches = {}
             THEN PlacesOf("ready") = {}
             ELSE LET first == CHOOSE i \in matches : \A k \in matches : i <= k
                      \* the notifications up to the first match
                      before == Len(SelectSeq(SubSeq(levents, 1, first), IsNotification))
                  IN  \E r \in PlacesOf("ready") :
                          /\ revents[r].data = levents[first].arg
                          /\ revents[r + 1].event = "attached"
                          /\ revents[r + 1].data = levents[first].arg
                          /\ Cardinality({k \in 1..(r + 1) :
                                 revents[k].event \in {"attached", "detached"}}) = before
    /\ \A r \in PlacesOf("ready"), w \in PlacesOf("warning") : w < r
    /\ PlacesOf("ready") # {} => relay.timer # "armed" /\ ~relay.readyCheck

\* a pinned relay: A is forwarded, B makes it ready and is forwarded
C12_Witness ==
    /\ relay.udid = "B"
    /\ revents = <<[event |-> "attached", data |-> "A"],
                   [event |-> "ready", data |-> "B"],
                   [event |-> "attached", data |-> "B"]>>
    /\ relay.timer = "cleared"

(***************************************************************************)
(* C13: when the discovery timer expires the relay emits "warning" once    *)
(* if no device of the registry satisfies the pin and nothing otherwise;   *)
(* the listener and the server are left as they are, readyCheck stays in   *)
(* place, and there is never a second "warning".                           *)
(***************************************************************************)
C13_WarningAtExpiry ==
    [][(relay.timer = "armed" /\ relay'.timer = "fired") =>
          /\ IF NoQualifyingDevice
               THEN /\ Len(revents') = Len(revents) + 1
                    /\ SubSeq(revents', 1, Len(revents)) = revents
                    /\ revents'[Len(revents')].event = "warning"
               ELSE revents' = revents
          /\ Cardinality({i \in 1..Len(revents') : revents'[i].event = "warning"}) <= 1
          /\ listener' = listener
          /\ relay' = [relay EXCEPT !.timer = "fired"]
          /\ UNCHANGED <<devices, locals, thrown>>]_vars

\* a warning for the pinned B while A is in the registry, and "ready" later
C13_Witness ==
    /\ relay.udid = "B" /\ relay.timer = "fired"
    /\ revents = <<[event |-> "warning", data |-> "Requested device not connected"],
                   [event |-> "ready", data |-> "B"],
                   [event |-> "attached", data |-> "B"]>>
    /\ relay.server = "listening" /\ ~listener.ended

\* the timer expired while a device satisfied the pin: nothing was emitted
C13_WitnessQuiet ==
    /\ relay.udid = "A" /\ relay.timer = "fired"
    /\ devices_has(devices, "A")
    /\ revents = <<>>

(***************************************************************************)
(* findDevice and getTunnel.  The registry is empty or holds what an       *)
(* earlier listener left.  findDevice is called from outside or by a call  *)
(* of getTunnel that finds no device in the registry; the process runs one *)
(* findDevice.  usbmuxd answers the Listen request with a Result and then  *)
(* reports devices, one frame per chunk.                                   *)
(***************************************************************************)
FinderEnv ==
    [finder |-> finder, devices |-> devices, conn |-> listener, events |-> levents,
     err |-> "none"]

FinderInit ==
    /\ devices \in LeftDevices
    /\ finder = NoFinder
    /\ calls = <<>>
    /\ peer = NoPeer
    /\ listener = createListener(FALSE)
    /\ lsent = <<>> /\ lchunks = 0 /\ lmsgs = <<>> /\ levents = <<>>
    /\ thrown = "none"
    /\ ParserIdle
    /\ ConnIdle
    /\ RelayIdle

\* findDevice(opts) is called from outside
FindDevice(udid) ==
    /\ thrown = "none"
    /\ finder.state = "none"
    /\ finder' = findDevice(udid, 0)
    /\ listener' = createListener(FALSE)
    /\ UNCHANGED <<devices, lsent, lchunks, lmsgs, levents, thrown, calls, peer,
                   parserVars, connVars, relayVars>>

\* getTunnel(devicePort, opts) is called: it runs up to its first await
GetTunnel(udid) ==
    /\ thrown = "none"
    /\ Len(calls) < MaxCalls
    /\ \E call \in {getTunnel(devices, udid)} :
          /\ calls' = Append(calls, call)
          /\ IF call.path = "connect"
               THEN UNCHANGED <<finder, listener>>
               ELSE /\ finder.state = "none"
                    /\ finder' = findDevice(udid, Len(calls) + 1)
                    /\ listener' = createListener(FALSE)
    /\ UNCHANGED <<devices, lsent, lchunks, lmsgs, levents, thrown, peer,
                   parserVars, connVars, relayVars>>

\* process.nextTick(function () { conn.write(req) }) of findDevice's listener
FinderWrite == finder.state = "started" /\ ListenerWrite

\* a "data" event of findDevice's listener carrying the frame of m
FinderData(m, strict) ==
    /\ thrown = "none"
    /\ finder.state = "started"
    /\ listener.written /\ listener.remote = "open"
    /\ Len(lsent) < MaxFindStream
    /\ IF lsent = <<>> THEN m \in Results ELSE m \in RelayDeviceMsgs
    /\ \E r \in {createListener_onData(ListenerEnv, pack(m), strict, Len(lmsgs))} :
       \E e \in {findDevice_onEvents(
                     [finder |-> finder, devices |-> r.env.devices, conn |-> r.env.conn,
                      events |-> r.env.events, err |-> r.env.err],
                     SubSeq(r.env.events, Len(levents) + 1, Len(r.env.events)),
                     Len(lmsgs) + Len(r.out))} :
           /\ devices' = e.devices
           /\ listener' = e.conn
           /\ levents' = e.events
           /\ thrown' = e.err
           /\ lmsgs' = lmsgs \o Msgs(r.out)
           /\ finder' = e.finder
           /\ calls' = getTunnel_onSettled(calls, e.finder)
    /\ lsent' = Append(lsent, m)
    /\ lchunks' = lchunks + 1
    /\ UNCHANGED <<peer, parserVars, connVars, relayVars>>

\* the timer of findDevice expires
FinderTimeout ==
    /\ thrown = "none"
    /\ finder.state = "started" /\ finder.timer = "armed"
    /\ listener.written
    /\ \E e \in {findDevice_onTimeout(FinderEnv, Len(lmsgs))} :
           /\ devices' = e.devices
           /\ listener' = e.conn
           /\ levents' = e.events
           /\ finder' = e.finder
           /\ calls' = getTunnel_onSettled(calls, e.finder)
    /\ UNCHANGED <<lsent, lchunks, lmsgs, thrown, peer,
                   parserVars, connVars, relayVars>>

\* usbmuxd closes the connection of findDevice's listener
FinderRemoteClose ==
    finder.state = "started" /\ listener.written /\ ListenerRemoteClose

\* the transport of findDevice's listener fails: "error" has no listener
FinderTransportError ==
    finder.state = "started" /\ listener.written /\ ListenerTransportError

FinderNext ==
    \/ \E udid \in {NoUdid} \cup UDIDs : FindDevice(udid)
    \/ \E udid \in {NoUdid} \cup UDIDs : GetTunnel(udid)
    \/ FinderWrite
    \/ \E m \in Results \cup RelayDeviceMsgs, strict \in BOOLEAN : FinderData(m, strict)
    \/ FinderTimeout
    \/ FinderRemoteClose
    \/ FinderTransportError

SpecFinder == FinderInit /\ [][FinderNext]_vars

\* the step hands a qualifying Attached to the listener of findDevice
QualifyingAttached ==
    /\ Len(lmsgs') = Len(lmsgs) + 1
    /\ lmsgs'[Len(lmsgs')].MessageType = "Attached"
    /\ finder.udid \in {NoUdid, lmsgs'[Len(lmsgs')].Properties.SerialNumber}

(***************************************************************************)
(* C14: findDevice settles once.  A qualifying "attached" while the timer  *)
(* is armed makes it succeed with the handle the registry then holds for   *)
(* that UDID and cancels the timer for good; the timer, when it fires      *)
(* first, makes it fail with the message for its pin; both stop the        *)
(* listener, and nothing else settles it.                                  *)
(***************************************************************************)
C14_FindDeviceSettlesOnce ==
    [][finder.state = "started" =>
          /\ finder.promise.state # "pending" => finder'.promise = finder.promise
          /\ finder.timer = "cleared" => finder'.timer = "cleared"
          /\ (finder.timer = "armed" /\ QualifyingAttached) =>
                /\ finder'.promise =
                      [state |-> "fulfilled",
                       value |-> devices_get(devices',
                                    lmsgs'[Len(lmsgs')].Properties.SerialNumber).DeviceID]
                /\ finder'.promise.value = lmsgs'[Len(lmsgs')].DeviceID
                /\ finder'.timer = "cleared"
                /\ listener'.ended
          /\ (finder.timer = "armed" /\ finder'.timer = "fired") =>
                /\ finder'.promise =
                      [state |-> "rejected",
                       reason |-> IF finder.udid = NoUdid
                                    THEN "No devices connected"
                                    ELSE "Requested device not connected"]
                /\ listener'.ended
          /\ (finder.promise.state = "pending" /\ finder'.promise.state # "pending") =>
                /\ finder.timer = "armed"
                /\ finder'.timer = "fired" \/ QualifyingAttached]_vars

\* pinned to B: A is passed over, B settles it with its handle
C14_Witness ==
    /\ finder.state = "started" /\ finder.udid = "B"
    /\ lmsgs = <<Result(0), Attached(1, "A"), Attached(2, "B")>>
    /\ finder.promise = [state |-> "fulfilled", value |-> 2]
    /\ finder.timer = "cleared" /\ listener.ended

\* the step is relay.stop()
IsStop == relay.server = "listening" /\ relay'.server = "closing"

\* the tunnel of c is established and spliced with c, and both are open
Spliced(c) ==
    /\ locals[c].piped
    /\ locals[c].state = "open" /\ ~locals[c].endCalled
    /\ locals[c].tunnel.remote = "open" /\ ~locals[c].tunnel.ended

(***************************************************************************)
(* C15: relay.stop() ends the listener's connection and closes the server  *)
(* and touches no accepted connection and no tunnel; afterwards no         *)
(* connection is accepted and the server does not listen again; a tunnel   *)
(* that is spliced with its connection still forwards the bytes it         *)
(* receives.                                                               *)
(***************************************************************************)
C15_StopLeavesTunnels ==
    [][/\ IsStop =>
             /\ listener'.ended
             /\ locals' = locals
             /\ \A c \in 1..MaxConns : Spliced(c) => Spliced(c)'
       /\ relay.server # "listening" =>
             /\ relay'.server # "listening"
             /\ \A c \in 1..MaxConns :
                   /\ locals[c].state = "none" => locals'[c] = locals[c]
                   /\ locals'[c].hasTunnel = locals[c].hasTunnel
                   /\ (Spliced(c) /\ locals'[c].replies = locals[c].replies + 1) =>
                         /\ Len(locals'[c].received) = Len(locals[c].received) + 1
                         /\ Spliced(c)']_vars

\* a stopped relay with a live tunnel that has forwarded a byte
C15_Witness ==
    /\ relay.server = "closing" /\ listener.ended
    /\ Spliced(1)
    /\ locals[1].received = <<TunnelByte>>

(***************************************************************************)
(* The Connect request: connect(deviceID, port) is called for every port   *)
(* of 16 bits and writes its request.                                      *)
(***************************************************************************)
Ports == 0..65535

RequestInit ==
    /\ conn \in {connect(1, p) : p \in Ports}
    /\ cwire = <<>> /\ cparsed = <<>> /\ ctunnel = <<>> /\ cmsgs = <<>>
    /\ request = <<>>
    /\ thrown = "none"
    /\ ParserIdle
    /\ ListenerIdle
    /\ RelayIdle
    /\ ProcessIdle

RequestNext == ConnWrite

SpecRequest == RequestInit /\ [][RequestNext]_vars

\* the PortNumber of a Connect frame: the field after the DeviceID
PortNumberOf(frame) == frame[HeaderSize + 4]

(***************************************************************************)
(* C16: for every port p of 0..65535 the PortNumber of the Connect frame   *)
(* is (p mod 256) * 256 + (p div 256), a value of 0..65535, and swapping   *)
(* it gives p again.                                                       *)
(***************************************************************************)
C16_PortByteSwapped ==
    conn.written =>
        /\ Len(request) = HeaderSize + 5
        /\ request[HeaderSize + 2] = ChConnect
        /\ PortNumberOf(request) = (conn.devicePort % 256) * 256 + (conn.devicePort \div 256)
        /\ PortNumberOf(request) \in 0..65535
        /\ byteSwap16(PortNumberOf(request)) = conn.devicePort

\* port 22 is carried as 5632
C16_Witness ==
    /\ conn.written /\ conn.devicePort = 22
    /\ PortNumberOf(request) = 5632

(***************************************************************************)
(* Two listeners of one process: both work on the registry of the module.  *)
(* usbmuxd sends the messages of input to each of them, one frame per      *)
(* chunk; each listener has received a prefix of input.                    *)
(***************************************************************************)
SharedStreams ==
    {<<Result(0)>> \o s :
        s \in UNION {[1..n -> RelayDeviceMsgs] : n \in 0..(MaxSharedStream - 1)}}

PeerEnv ==
    [devices |-> devices, conn |-> peer.conn, events |-> peer.events, err |-> "none"]

SharedInit ==
    /\ input \in SharedStreams
    /\ wire = <<>> /\ chunks = 0 /\ parser = makeParser /\ decoded = <<>>
    /\ devices = <<>>
    /\ listener = createListener(TRUE)
    /\ lsent = <<>> /\ lchunks = 0 /\ lmsgs = <<>> /\ levents = <<>>
    /\ peer = NoPeer
    /\ finder = NoFinder
    /\ calls = <<>>
    /\ thrown = "none"
    /\ ConnIdle
    /\ RelayIdle

\* process.nextTick(function () { conn.write(req) }) of the second listener
PeerWrite ==
    /\ thrown = "none"
    /\ ~peer.conn.written
    /\ peer' = [peer EXCEPT !.conn.written = TRUE]
    /\ UNCHANGED <<thrown, finder, calls, parserVars, connVars, listenerVars, relayVars>>

\* a "data" event of the first listener carrying its next frame
SharedData(strict) ==
    /\ thrown = "none"
    /\ listener.written /\ listener.remote = "open"
    /\ Len(lsent) < Len(input)
    /\ \E r \in {createListener_onData(ListenerEnv, pack(input[Len(lsent) + 1]),
                                        strict, Len(lmsgs))} :
           /\ devices' = r.env.devices
           /\ listener' = r.env.conn
           /\ levents' = r.env.events
           /\ thrown' = r.env.err
           /\ lmsgs' = lmsgs \o Msgs(r.out)
    /\ lsent' = Append(lsent, input[Len(lsent) + 1])
    /\ lchunks' = lchunks + 1
    /\ UNCHANGED <<processVars, parserVars, connVars, relayVars>>

\* a "data" event of the second listener carrying its next frame
PeerData(strict) ==
    /\ thrown = "none"
    /\ peer.conn.written /\ peer.conn.remote = "open"
    /\ Len(peer.msgs) < Len(input)
    /\ \E r \in {createListener_onData(PeerEnv, pack(input[Len(peer.msgs) + 1]),
                                        strict, Len(peer.msgs))} :
           /\ devices' = r.env.devices
           /\ peer' = [conn |-> r.env.conn, msgs |-> peer.msgs \o Msgs(r.out),
                       events |-> r.env.events]
           /\ thrown' = r.env.err
    /\ UNCHANGED <<listener, lsent, lchunks, lmsgs, levents, finder, calls,
                   parserVars, connVars, relayVars>>

SharedNext ==
    \/ ListenerWrite
    \/ PeerWrite
    \/ \E strict \in BOOLEAN : SharedData(strict)
    \/ \E strict \in BOOLEAN : PeerData(strict)

SpecShared == SharedInit /\ [][SharedNext]_vars

\* the listener with messages M and log E announced u as attached by a
\* message before M[j] with the handle of M[j], and since then neither
\* announced u as detached nor received another Attached for u
OwesDetached(M, E, j, u) ==
    \E i \in 1..(j - 1) :
        /\ M[i].MessageType = "Attached"
        /\ M[i].DeviceID = M[j].DeviceID
        /\ M[i].Properties.SerialNumber = u
        /\ \E n \in 1..Len(E) : E[n].event = "attached" /\ E[n].arg = u /\ E[n].seq = i
        /\ \A k \in (i + 1)..(j - 1) :
              /\ ~(M[k].MessageType = "Attached" /\ M[k].Properties.SerialNumber = u)
              /\ ~\E n \in 1..Len(E) :
                     E[n].event = "detached" /\ E[n].arg = u /\ E[n].seq = k

\* the listener emitted "detached" for every Detached it owed one for
EmitsOwedDetached(M, E) ==
    \A j \in 1..Len(M), u \in UDIDs :
        (M[j].MessageType = "Detached" /\ OwesDetached(M, E, j, u)) =>
            \E n \in 1..Len(E) : E[n].event = "detached" /\ E[n].arg = u /\ E[n].seq = j

(***************************************************************************)
(* C17: each of two listeners that share the registry and receive the      *)
(* same stream emits "detached" with the UDID for every Detached whose     *)
(* handle is that of a device it announced as attached and not yet as      *)
(* detached, however their handlers interleave.                            *)
(***************************************************************************)
C17_EachListenerEmitsDetached ==
    /\ EmitsOwedDetached(lmsgs, levents)
    /\ EmitsOwedDetached(peer.msgs, peer.events)

\* the places of the registry whose key is u
EntriesOf(devs, u) == {i \in 1..Len(devs) : devs[i].key = u}

\* every entry is stored under the serial number of its own descriptor,
\* under a key no other entry has
KeyedByUdid(devs) ==
    /\ \A i \in 1..Len(devs) : devs[i].key = devs[i].value.SerialNumber
    /\ \A i, j \in 1..Len(devs) : devs[i].key = devs[j].key => i = j

\* the message handled last was an Attached: the registry holds its
\* descriptor, handle included, as the one entry of its UDID
LastAttachedStored ==
    (lmsgs # <<>> /\ lmsgs[Len(lmsgs)].MessageType = "Attached") =>
        LET m == lmsgs[Len(lmsgs)]
        IN  /\ Cardinality(EntriesOf(devices, m.Properties.SerialNumber)) = 1
            /\ devices_get(devices, m.Properties.SerialNumber) = m.Properties

\* a step that changes the registry handled an Attached or a Detached
\* message, and a step that handles an Attached for a UDID already present
\* as its only message keeps the number and the order of the keys
OnlyAttachDetachChange ==
    /\ devices' # devices =>
          \E i \in (Len(lmsgs) + 1)..Len(lmsgs') :
              lmsgs'[i].MessageType \in {"Attached", "Detached"}
    /\ (/\ Len(lmsgs') = Len(lmsgs) + 1
        /\ lmsgs'[Len(lmsgs')].MessageType = "Attached"
        /\ devices_has(devices, lmsgs'[Len(lmsgs')].Properties.SerialNumber)) =>
          Object_keys(devices') = Object_keys(devices)

(***************************************************************************)
(* C18: in every reachable state every registry entry is stored under the  *)
(* serial number (UDID) of its own descriptor and keys are unique; an      *)
(* Attached for a UDID already present replaces the descriptor of that     *)
(* entry, handle included, without creating a second entry; and only the   *)
(* handling of an Attached or a Detached message changes the registry      *)
(* (writing the request, end(), a close and a transport error do not).     *)
(***************************************************************************)
C18_RegistryKeyedByUdid ==
    /\ [](KeyedByUdid(devices) /\ LastAttachedStored)
    /\ [][OnlyAttachDetachChange]_vars

\* the same UDID was attached twice with different handles, and the
\* registry holds one entry for it, with the second handle
C18_Witness ==
    /\ Len(lmsgs) >= 3
    /\ lmsgs[Len(lmsgs) - 1] = Attached(1, "A")
    /\ lmsgs[Len(lmsgs)] = Attached(2, "A")
    /\ listener.ended
    /\ Object_keys(devices) = <<"A">>
    /\ devices_get(devices, "A").DeviceID = 2

\* the step is a call of getTunnel
IsGetTunnel == Len(calls') = Len(calls) + 1

\* the entries of devs are in devs2, with the descriptors they had
Remain(devs, devs2) ==
    \A i \in 1..Len(devs) :
        devices_has(devs2, devs[i].key) /\ devices_get(devs2, devs[i].key) = devs[i].value

\* the step ends the listener or sees its connection closed
IsClosing ==
    \/ ~listener.ended /\ listener'.ended
    \/ listener.remote = "open" /\ listener'.remote = "closed"

(***************************************************************************)
(* C19: closing a listener leaves the registry as it is.  A step that      *)
(* handles no message (the timeout of findDevice, a close or an error of   *)
(* the transport) or handles a Result, zero or not, does not change the    *)
(* registry; the end of findDevice on a qualifying Attached                *)
(* keeps the entry just recorded and, apart from the entry that the        *)
(* Attached replaces, every entry recorded before.  A getTunnel call that  *)
(* finds its UDID in the registry, or is unpinned and finds the registry   *)
(* not empty, calls connect with the recorded handle and starts neither    *)
(* findDevice nor a listener, whether the listener that recorded the       *)
(* entry is still open or not.                                             *)
(***************************************************************************)
C19_ClosingLeavesRegistry ==
    [][/\ lmsgs' = lmsgs => devices' = devices
       /\ Len(lmsgs') = Len(lmsgs) + 1 =>
             LET m == lmsgs'[Len(lmsgs')]
             IN  /\ m.MessageType = "Result" => devices' = devices
                 /\ (m.MessageType = "Attached" /\ IsClosing) =>
                       /\ devices_has(devices', m.Properties.SerialNumber)
                       /\ devices_get(devices', m.Properties.SerialNumber) = m.Properties
                       /\ Remain(SelectSeq(devices,
                                    LAMBDA e : e.key # m.Properties.SerialNumber),
                                 devices')
       /\ IsGetTunnel =>
             LET call == calls'[Len(calls')]
                 hit  == IF call.udid # NoUdid THEN devices_has(devices, call.udid)
                                               ELSE devices # <<>>
                 key  == IF call.udid # NoUdid THEN call.udid ELSE devices[1].key
             IN  /\ devices' = devices
                 /\ hit => /\ call.path = "connect"
                           /\ call.deviceID = devices_get(devices, key).DeviceID
                           /\ finder' = finder
                           /\ listener' = listener /\ levents' = levents]_vars

\* findDevice recorded A with handle 2 and ended its listener, usbmuxd
\* closed the connection, and a getTunnel call for A made afterwards went
\* to connect with handle 2
C19_Witness ==
    /\ lmsgs = <<Result(0), Attached(2, "A")>>
    /\ finder.owner = 0 /\ finder.promise.state = "fulfilled"
    /\ listener.ended /\ listener.remote = "closed"
    /\ Len(levents) > 0 /\ levents[Len(levents)].event = "end"
    /\ calls = <<[udid |-> "A", path |-> "connect", deviceID |-> 2]>>

\* the step makes the relay emit "ready"
EmitsReady ==
    \E i \in (Len(revents) + 1)..Len(revents') : revents'[i].event = "ready"

(***************************************************************************)
(* C20: only "ready" cancels the discovery timer of the relay.  The timer  *)
(* goes from armed to cleared only in a step that emits "ready"; stop()    *)
(* leaves the timer as it is; a timer that fired or was cleared stays so;  *)
(* and when the timer of a stopped relay expires while no device of the    *)
(* registry qualifies, the relay emits "warning" then, after stop().       *)
(***************************************************************************)
C20_StopKeepsWatchdog ==
    [][/\ (relay.timer = "armed" /\ relay'.timer = "cleared") => EmitsReady
       /\ IsStop => relay'.timer = relay.timer
       /\ relay.timer # "armed" => relay'.timer = relay.timer
       /\ (/\ relay.server # "listening"
           /\ relay.timer = "armed" /\ relay'.timer = "fired"
           /\ NoQualifyingDevice) =>
             /\ Len(revents') = Len(revents) + 1
             /\ SubSeq(revents', 1, Len(revents)) = revents
             /\ revents'[Len(revents')] =
                   [event |-> "warning",
                    data |-> IF relay.udid = NoUdid THEN "No devices connected"
                             ELSE "Requested device not connected"]]_vars

\* stop() was called before the timer expired and the server closed; the
\* timer then expired with an empty registry and the relay emitted
\* "warning" after "close"
C20_Witness ==
    /\ relay.udid = NoUdid /\ relay.server = "closed" /\ relay.timer = "fired"
    /\ listener.ended
    /\ devices = <<>>
    /\ revents = <<[event |-> "close", data |-> ""],
                   [event |-> "warning", data |-> "No devices connected"]>>
====
